---- MODULE Spec2Model ----
(***************************************************************************)
(* A model of the request-hedging orchestrator (HedgedRequestPattern's     *)
(* inline orchestrator handler) and of the superposition race coordinator  *)
(* (SuperpositionEngine's Step Functions workflow and its coordinator      *)
(* handler).                                                               *)
(*                                                                         *)
(* One JavaScript macrotask is one action: the settlement of an invocation *)
(* or the firing of a timer, together with every promise reaction          *)
(* (microtask) it triggers.                                                *)
(***************************************************************************)
EXTENDS Integers, Sequences, FiniteSets, TLC

(***************************************************************************)
(* Configuration of the orchestrator                                       *)
(***************************************************************************)
\* hedgeThresholdMs as configured by the demo stack
hedgeThresholdMs == 150
\* maxHedgedRequests as configured (and its default)
maxHedgedRequests == 2
\* timeout of the orchestrator function: cdk.Duration.seconds(60)
OrchestratorTimeoutMs == 60000
\* Limit of the metrics query
QueryLimit == 100
\* the window of the metrics query: the last hour
OneHourMs == 3600000
\* time to live of a metrics item, in seconds: 24 hours
TtlSeconds == 86400

\* Bounds of the model
MaxBackupFunctions == 3
MaxRequests == 2
MaxPaths == 3
MaxExecutionTime == 2
MaxWindow == 3
MaxGatePaths == 2
MaxWeight == 2
MaxRouterRequests == 2
MaxThresholdSeconds == 40

VARIABLES
    backupFunctionNames,  \* number of configured backup functions
    enableSpeculative,    \* ENABLE_SPECULATIVE
    metricsTable,         \* the metrics store: the attributes read back (latency,
                          \* success) of its items, in the order written
    hpc,                  \* position of the orchestrator handler
    event,                \* the request being handled
    strategy,             \* result of determineExecutionStrategy
    inv,                  \* invocation i: 0 the primary, i > 0 backup-(i-1)
    hedgeTimer,           \* hedgeTimer of executeDelayedHedgedRequest
    hedgePromises,        \* hedgePromises.length
    allWatch,             \* the "If all fail" Promise.all has been set up
    promise,              \* state of the promise the handler awaits
    result,               \* its value once fulfilled
    thrown,               \* its error once rejected
    specInv,              \* speculative follow-up invocations
    putCalls,             \* PutItem calls made for the current request
    putItem,              \* the item of the PutItem that settled last
    requests,             \* requests started so far
    firstOk,              \* history: first participant that succeeded, or -1
    firedWith,            \* history: the primary's state when the hedge timer fired
    now,                  \* the clock when the handler is entered: startTime
    recentMetrics,        \* the window determineExecutionStrategy read
    timeoutId,            \* the abort timer of each invocation (inv) and of each
                          \* speculative follow-up (spec)
    sent                  \* InvokeCommands sent to each participant with the
                          \* event as payload, for the current request

hedgeVars == <<backupFunctionNames, enableSpeculative, metricsTable, hpc, event,
               strategy, inv, hedgeTimer, hedgePromises, allWatch, promise,
               result, thrown, specInv, putCalls, putItem, requests, firstOk,
               firedWith, now, recentMetrics, timeoutId, sent>>

VARIABLES
    parallelFunctions,    \* number of parallel functions (race candidates)
    wf,                   \* current state of the workflow execution
    execStatus,           \* RUNNING, SUCCEEDED or FAILED
    execError,            \* error name of a FAILED execution
    branch,               \* branch i of QuantumParallel (QuantumPath<i>)
    results,              \* $.results: the task result of each path
    finished,             \* history: paths in the order they returned
    wfError,              \* $.error
    measurement,          \* $.measurement
    resultTable           \* items the coordinator wrote to the result table

raceVars == <<parallelFunctions, wf, execStatus, execError, branch, results,
              finished, wfError, measurement, resultTable>>

VARIABLES
    executionPaths,       \* EXECUTION_PATHS: the weight of each configured path
    enableAdaptiveRouting,\* ENABLE_ADAPTIVE_ROUTING
    minSampleSize,        \* MIN_SAMPLE_SIZE
    pathStats,            \* the router's in-memory statistics of each path
    router                \* the router requests: their position and outcome

gateVars == <<executionPaths, enableAdaptiveRouting, minSampleSize, pathStats,
              router>>

VARIABLES
    hedgeThreshold,       \* HEDGE_THRESHOLD_MS of a deployment
    clock,                \* ms since the orchestrator was invoked
    attempt,              \* the primary and the backup of a delayed hedge
    orchestrator          \* the orchestrator function: running or timed out

timingVars == <<hedgeThreshold, clock, attempt, orchestrator>>

vars == <<hedgeVars, raceVars, gateVars, timingVars>>

(***************************************************************************)
(* Values                                                                  *)
(***************************************************************************)
Participants == 0..maxHedgedRequests

\* outcomes of invokeFunctionWithTimeout: a parsed payload (whose "error"
\* field may or may not be set), or a rejection
Payloads == {"payload", "payloadWithError"}
Failures == {"invocationError", "timeout"}
Outcomes == Payloads \cup Failures

Actions == {"getUser", "addToCart", "other"}
Events == [highValue : BOOLEAN, action : Actions]

\* latencies Date.now() - startTime can take: below the hedge threshold, above
\* it, above twice it
Latencies == {0, hedgeThresholdMs + 1, 2 * hedgeThresholdMs + 1}

\* the clock when the orchestrator is deployed, and the time between the
\* arrival of a request and the arrival of the next: none (a burst), the width
\* of the query window, more than the time to live of an item
Epoch == (TtlSeconds + 1) * 1000 + OneHourMs
Burst == {0}
Elapsed == Burst \cup {OneHourMs, (TtlSeconds + 1) * 1000}

NoStrategy == [type |-> "none", reason |-> "none"]
NoResult == [from |-> -1, errorField |-> FALSE, strategy |-> "none",
             winner |-> "absent", hedgesTriggered |-> -1,
             speculativeExecutions |-> -1, metadataKeys |-> {}]
\* no invocation has been made: no timer has been set
NoTimeouts == [inv |-> [i \in Participants |-> "unset"], spec |-> <<>>]
NoError == [aggregate |-> FALSE, message |-> <<>>]
NoItem == [timestamp |-> -1, latency |-> -1, success |-> FALSE,
           strategy |-> "none", strategyReason |-> "none", ttl |-> -1]

Min(a, b) == IF a < b THEN a ELSE b
Max(a, b) == IF a > b THEN a ELSE b

(***************************************************************************)
(* Metrics window statistics                                               *)
(***************************************************************************)
RECURSIVE SumLatency(_)
SumLatency(s) == IF s = <<>> THEN 0 ELSE Head(s).latency + SumLatency(Tail(s))

RECURSIVE Insert(_, _)
Insert(x, s) ==
    IF s = <<>> THEN <<x>>
    ELSE IF x <= Head(s) THEN <<x>> \o s
    ELSE <<Head(s)>> \o Insert(x, Tail(s))

RECURSIVE SortAsc(_)
SortAsc(s) == IF s = <<>> THEN <<>> ELSE Insert(Head(s), SortAsc(Tail(s)))

\* a quotient num/den, compared without dividing
GreaterThan(q, n, d) == q.num * d > n * q.den

calculateAverageLatency(metrics) ==
    IF Len(metrics) = 0 THEN [num |-> 0, den |-> 1]
    ELSE [num |-> SumLatency(metrics), den |-> Len(metrics)]

\* (mutant) the index is Math.floor((percentile / 100) * sorted.length), kept
\* within the array
calculatePercentileLatencyFloor(metrics, percentile) ==
    IF Len(metrics) = 0 THEN 0
    ELSE LET sorted == SortAsc([k \in 1..Len(metrics) |-> metrics[k].latency])
             index == (percentile * Len(sorted)) \div 100
         IN  sorted[Min(Len(sorted) - 1, index) + 1]

calculatePercentileLatency(metrics, percentile) ==
    IF Len(metrics) = 0 THEN 0
    ELSE LET sorted == SortAsc([k \in 1..Len(metrics) |-> metrics[k].latency])
             \* Math.ceil((percentile / 100) * sorted.length) - 1
             index == ((percentile * Len(sorted) + 99) \div 100) - 1
         IN  sorted[Max(0, index) + 1]

calculateErrorRate(metrics) ==
    IF Len(metrics) = 0 THEN [num |-> 0, den |-> 1]
    ELSE [num |-> Cardinality({k \in 1..Len(metrics) : metrics[k].success = FALSE}),
          den |-> Len(metrics)]

isHighValueRequest(ev) == ev.highValue

\* number of payloads generateSpeculativePayloads builds
generateSpeculativePayloads(ev) ==
    (IF ev.action = "getUser" THEN 1 ELSE 0) + (IF ev.action = "addToCart" THEN 2 ELSE 0)

\* the query: the items with timestamp > oneHourAgo, newest first, at most
\* QueryLimit of them; [] when the query fails.  The store removes expired
\* items lazily: here it never does, and the query has no filter on ttl.
RECURSIVE Reverse(_)
Reverse(s) == IF s = <<>> THEN <<>> ELSE Reverse(Tail(s)) \o <<Head(s)>>

InKeyCondition(m, oneHourAgo) == m.timestamp > oneHourAgo

\* (mutant) the query has no condition on the timestamp
getRecentMetricsAnyTime(table, time, queryOk) ==
    IF queryOk
    THEN LET newestFirst == Reverse(table)
         IN  SubSeq(newestFirst, 1, Min(Len(newestFirst), QueryLimit))
    ELSE <<>>

getRecentMetrics(table, time, queryOk) ==
    IF queryOk
    THEN LET oneHourAgo == time - OneHourMs
             newestFirst == Reverse(SelectSeq(table,
                                LAMBDA m : InKeyCondition(m, oneHourAgo)))
         IN  SubSeq(newestFirst, 1, Min(Len(newestFirst), QueryLimit))
    ELSE <<>>

\* (mutant) the high-value rule is tried first
determineExecutionStrategySpeculativeFirst(ev, metrics, speculative) ==
    LET avgLatency == calculateAverageLatency(metrics)
        p95Latency == calculatePercentileLatency(metrics, 95)
        errorRate  == calculateErrorRate(metrics)
    IN  IF speculative /\ isHighValueRequest(ev)
        THEN [type |-> "SPECULATIVE", reason |-> "High value request optimization"]
        ELSE IF GreaterThan(errorRate, 5, 100)
        THEN [type |-> "IMMEDIATE_HEDGE", reason |-> "High error rate detected"]
        ELSE IF p95Latency > hedgeThresholdMs * 2
        THEN [type |-> "IMMEDIATE_HEDGE", reason |-> "High P95 latency"]
        ELSE IF GreaterThan(avgLatency, hedgeThresholdMs, 1)
        THEN [type |-> "DELAYED_HEDGE", reason |-> "Average latency above threshold"]
        ELSE [type |-> "PRIMARY_ONLY", reason |-> "Normal performance conditions"]

determineExecutionStrategy(ev, metrics, speculative) ==
    LET avgLatency == calculateAverageLatency(metrics)
        p95Latency == calculatePercentileLatency(metrics, 95)
        errorRate  == calculateErrorRate(metrics)
    IN  IF GreaterThan(errorRate, 5, 100)
        THEN [type |-> "IMMEDIATE_HEDGE", reason |-> "High error rate detected"]
        ELSE IF p95Latency > hedgeThresholdMs * 2
        THEN [type |-> "IMMEDIATE_HEDGE", reason |-> "High P95 latency"]
        ELSE IF GreaterThan(avgLatency, hedgeThresholdMs, 1)
        THEN [type |-> "DELAYED_HEDGE", reason |-> "Average latency above threshold"]
        ELSE IF speculative /\ isHighValueRequest(ev)
        THEN [type |-> "SPECULATIVE", reason |-> "High value request optimization"]
        ELSE [type |-> "PRIMARY_ONLY", reason |-> "Normal performance conditions"]

(***************************************************************************)
(* Names and messages                                                      *)
(***************************************************************************)
\* index === 0 ? 'primary' : `backup-${index-1}`
SourceName(index) == IF index = 0 THEN "primary" ELSE "backup-" \o ToString(index - 1)

\* error.message of a caught value: undefined unless the value has a message
MessageOf(caught) == IF "message" \in DOMAIN caught THEN caught.message ELSE "undefined"

\* backups an immediate hedge starts: backupFunctionNames.slice(0, maxHedgedRequests)
ImmediateBackups(n) == Min(n, maxHedgedRequests)

\* (mutant) the loop of the timer callback runs to maxHedgedRequests only
DelayedBackupsUpToMaximum(n) == maxHedgedRequests

\* backups the hedge timer starts: Math.min(maxHedgedRequests, backupFunctionNames.length)
DelayedBackups(n) == Min(maxHedgedRequests, n)

Succeeded(i) == inv[i] \in Payloads
Failed(i) == inv[i] \in Failures
Launched(i) == inv[i] # "none"

(***************************************************************************)
(* The orchestrator handler                                                *)
(***************************************************************************)
\* no request has been received yet
NoRequest ==
    /\ hpc = "idle"
    /\ event = [highValue |-> FALSE, action |-> "other"]
    /\ strategy = NoStrategy
    /\ inv = [i \in Participants |-> "none"]
    /\ hedgeTimer = "unset"
    /\ hedgePromises = 0
    /\ allWatch = FALSE
    /\ promise = "pending"
    /\ result = NoResult
    /\ thrown = NoError
    /\ specInv = <<>>
    /\ putCalls = 0
    /\ putItem = NoItem
    /\ requests = 0
    /\ firstOk = -1
    /\ firedWith = "none"
    /\ now = Epoch
    /\ recentMetrics = <<>>
    /\ timeoutId = NoTimeouts
    /\ sent = [i \in Participants |-> 0]

\* ... and the metrics table is empty
HandlerIdle ==
    /\ metricsTable = <<>>
    /\ NoRequest

HedgeInit ==
    /\ backupFunctionNames \in 0..MaxBackupFunctions
    /\ enableSpeculative \in BOOLEAN
    /\ HandlerIdle

\* the orchestrator as the demo stack configures it, idle
HedgeIdle ==
    /\ backupFunctionNames = 2
    /\ enableSpeculative = TRUE
    /\ HandlerIdle

\* exports.handler is entered with a new event
StartRequest(ev, elapsed) ==
    /\ hpc \in {"idle", "returned", "thrown"}
    /\ requests < MaxRequests
    /\ requests' = requests + 1
    /\ hpc' = "deciding"
    /\ event' = ev
    /\ strategy' = NoStrategy
    /\ inv' = [i \in Participants |-> "none"]
    /\ hedgeTimer' = "unset"
    /\ hedgePromises' = 0
    /\ allWatch' = FALSE
    /\ promise' = "pending"
    /\ result' = NoResult
    /\ thrown' = NoError
    /\ specInv' = <<>>
    /\ putCalls' = 0
    /\ putItem' = NoItem
    /\ firstOk' = -1
    /\ firedWith' = "none"
    /\ now' = now + elapsed
    /\ recentMetrics' = <<>>
    /\ timeoutId' = NoTimeouts
    /\ sent' = [i \in Participants |-> 0]
    /\ UNCHANGED <<backupFunctionNames, enableSpeculative, metricsTable>>
    /\ UNCHANGED <<raceVars, gateVars, timingVars>>

\* invocations a strategy starts synchronously
StartedBy(type, i) ==
    CASE type = "IMMEDIATE_HEDGE" -> i <= ImmediateBackups(backupFunctionNames)
      [] OTHER -> i = 0

\* the metrics query settles; the strategy is determined and its execute*
\* function runs up to its first await
Decide(queryOk) ==
    /\ hpc = "deciding"
    /\ LET window == getRecentMetrics(metricsTable, now, queryOk)
           s == determineExecutionStrategy(event, window, enableSpeculative)
       IN  /\ recentMetrics' = window
           /\ strategy' = s
           /\ inv' = [i \in Participants |->
                        IF StartedBy(s.type, i) THEN "pending" ELSE "none"]
           /\ sent' = [i \in Participants |-> IF StartedBy(s.type, i) THEN 1 ELSE 0]
           \* setTimeout(() => controller.abort(), timeoutMs)
           /\ timeoutId' = [timeoutId EXCEPT !.inv =
                               [i \in Participants |->
                                   IF StartedBy(s.type, i) THEN "armed" ELSE "unset"]]
           /\ hedgeTimer' = IF s.type = "DELAYED_HEDGE" THEN "armed" ELSE "unset"
    /\ hpc' = "executing"
    /\ UNCHANGED <<backupFunctionNames, enableSpeculative, metricsTable, event,
                   hedgePromises, allWatch, promise, result, thrown, specInv,
                   putCalls, putItem, requests, firstOk, firedWith, now>>
    /\ UNCHANGED <<raceVars, gateVars, timingVars>>

\* the value a strategy resolves with when participant i returns payload out
Resolved(type, i, out) ==
    [from |-> i,
     errorField |-> (out = "payloadWithError"),
     strategy |-> type,
     winner |-> CASE type = "IMMEDIATE_HEDGE" -> SourceName(i)
                  [] type = "DELAYED_HEDGE" -> SourceName(i)
                  [] OTHER -> "absent",
     hedgesTriggered |->
        CASE type = "DELAYED_HEDGE" /\ i = 0 -> hedgePromises
          [] type = "DELAYED_HEDGE" /\ i > 0 -> hedgePromises + 1
          [] OTHER -> -1,
     speculativeExecutions |->
        IF type = "SPECULATIVE" THEN generateSpeculativePayloads(event) ELSE -1,
     \* the keys of hedgedRequestMetadata
     metadataKeys |->
        CASE type = "IMMEDIATE_HEDGE" -> {"strategy", "winner", "requestId"}
          [] type = "DELAYED_HEDGE" ->
                {"strategy", "winner", "hedgesTriggered", "requestId"}
          [] type = "SPECULATIVE" ->
                {"strategy", "speculativeExecutions", "requestId"}
          [] OTHER -> {"strategy", "requestId"}]

\* results of Promise.all([primaryPromise, ...hedgePromises].map(p => p.catch(e => e))):
\* the primary's value or its caught Error; each hedge promise, whose then and
\* catch callbacks return nothing, gives undefined
AllResults(invs, n) ==
    [k \in 1..(n + 1) |->
        IF k = 1 THEN (IF invs[0] \in Failures THEN "Error" ELSE "value")
        ELSE "undefined"]

AllSettled(invs, n) == \A k \in 0..n : invs[k] \in Outcomes

\* the "If all fail" callback rejects
AllFailRejects(invs, n) ==
    LET all == AllResults(invs, n)
        errors == {k \in DOMAIN all : all[k] = "Error"}
    IN  Cardinality(errors) = Len(all)

\* (mutant) only the primary's then callback resolves the request
ReactionBackupsNeverResolve(type, i, out, invs) ==
    CASE promise # "pending" -> "none"
      [] type = "IMMEDIATE_HEDGE" ->
            IF out \in Payloads THEN "fulfil" ELSE "reject"
      [] type = "DELAYED_HEDGE" ->
            IF out \in Payloads /\ i = 0 THEN "fulfil"
            ELSE IF allWatch /\ AllSettled(invs, hedgePromises)
                             /\ AllFailRejects(invs, hedgePromises)
                 THEN "reject" ELSE "none"
      [] OTHER ->
            IF i # 0 THEN "none"
            ELSE IF out \in Payloads THEN "fulfil" ELSE "reject"

\* (mutant) a promise that is settled can be resolved again
ReactionLastWins(type, i, out, invs) ==
    CASE type = "IMMEDIATE_HEDGE" ->
            IF promise # "pending" THEN "none"
            ELSE IF out \in Payloads THEN "fulfil" ELSE "reject"
      [] type = "DELAYED_HEDGE" ->
            IF out \in Payloads THEN "fulfil"
            ELSE IF promise = "pending" /\ allWatch
                    /\ AllSettled(invs, hedgePromises)
                    /\ AllFailRejects(invs, hedgePromises)
                 THEN "reject" ELSE "none"
      [] OTHER ->
            IF i # 0 \/ promise # "pending" THEN "none"
            ELSE IF out \in Payloads THEN "fulfil" ELSE "reject"

\* what the settlement of participant i with out does to the awaited promise:
\* "fulfil", "reject" or "none"
Reaction(type, i, out, invs) ==
    CASE promise # "pending" -> "none"
      [] type = "IMMEDIATE_HEDGE" ->
            \* Promise.race: the first wrapper to settle settles the race
            IF out \in Payloads THEN "fulfil" ELSE "reject"
      [] type = "DELAYED_HEDGE" ->
            IF out \in Payloads THEN "fulfil"
            ELSE IF allWatch /\ AllSettled(invs, hedgePromises)
                             /\ AllFailRejects(invs, hedgePromises)
                 THEN "reject" ELSE "none"
      [] OTHER ->
            IF i # 0 THEN "none"
            ELSE IF out \in Payloads THEN "fulfil" ELSE "reject"

\* the error a strategy rejects with
Rejection(type, i, out) ==
    CASE type = "IMMEDIATE_HEDGE" ->
            [aggregate |-> TRUE,
             message |-> <<"All hedged requests failed: ",
                           MessageOf([error |-> out, source |-> SourceName(i)])>>]
      [] type = "DELAYED_HEDGE" ->
            [aggregate |-> TRUE, message |-> <<"All hedged requests failed">>]
      [] OTHER -> [aggregate |-> FALSE, message |-> <<out>>]

\* (mutant) the timer is never cleared
ClearTimeoutMissing(type, i, out) == hedgeTimer

\* (mutant) the timer is cleared when the primary settles, whatever the outcome
ClearTimeoutOnSettle(type, i, out) ==
    IF type = "DELAYED_HEDGE" /\ i = 0 /\ hedgeTimer = "armed"
    THEN "cleared" ELSE hedgeTimer

\* if (hedgeTimer) clearTimeout(hedgeTimer), in the primary's then callback
ClearTimeout(type, i, out) ==
    IF type = "DELAYED_HEDGE" /\ i = 0 /\ out \in Payloads /\ hedgeTimer = "armed"
    THEN "cleared" ELSE hedgeTimer

\* the handler after its await: record metrics and return, or rethrow
Continue(reaction) ==
    CASE reaction = "fulfil" -> /\ hpc' = "recording"
                                /\ putCalls' = putCalls + 1
      [] reaction = "reject" -> /\ hpc' = "thrown"
                                /\ putCalls' = putCalls
      [] OTHER -> UNCHANGED <<hpc, putCalls>>

\* invocation i settles with out
Settle(i, out) ==
    /\ inv[i] = "pending"
    /\ LET invs == [inv EXCEPT ![i] = out]
           r == Reaction(strategy.type, i, out, invs)
       IN  /\ inv' = invs
           /\ firstOk' = IF firstOk = -1 /\ out \in Payloads THEN i ELSE firstOk
           /\ promise' = CASE r = "fulfil" -> "fulfilled"
                           [] r = "reject" -> "rejected"
                           [] OTHER -> promise
           /\ result' = IF r = "fulfil" THEN Resolved(strategy.type, i, out) ELSE result
           /\ thrown' = IF r = "reject" THEN Rejection(strategy.type, i, out) ELSE thrown
           /\ hedgeTimer' = ClearTimeout(strategy.type, i, out)
           \* the speculative follow-ups start once the primary has returned
           /\ specInv' = IF strategy.type = "SPECULATIVE" /\ i = 0 /\ out \in Payloads
                         THEN [k \in 1..generateSpeculativePayloads(event) |-> "pending"]
                         ELSE specInv
           \* clearTimeout(timeoutId), after the await or in the catch block
           /\ timeoutId' =
                 [inv |-> [timeoutId.inv EXCEPT ![i] = "cleared"],
                  spec |-> IF strategy.type = "SPECULATIVE" /\ i = 0 /\ out \in Payloads
                           THEN [k \in 1..generateSpeculativePayloads(event) |-> "armed"]
                           ELSE timeoutId.spec]
           /\ Continue(r)
    /\ UNCHANGED <<backupFunctionNames, enableSpeculative, metricsTable, event,
                   strategy, hedgePromises, allWatch, putItem, requests, firedWith,
                   now, recentMetrics, sent>>
    /\ UNCHANGED <<raceVars, gateVars, timingVars>>

\* (mutant) the timer callback also invokes a primary that has failed, again
InvokedByTimerRetrying(i, n, count) ==
    IF (i >= 1 /\ i <= n) \/ (i = 0 /\ inv[0] \in Failures)
    THEN count + 1 ELSE count

\* the invocations of participant i once the timer callback has invoked
\* backupFunctionNames[0..n-1]
InvokedByTimer(i, n, count) == IF i >= 1 /\ i <= n THEN count + 1 ELSE count

\* the hedge timer fires: the backups start and the "If all fail" watch is set up
HedgeTimerFires ==
    /\ hedgeTimer = "armed"
    /\ hedgeTimer' = "fired"
    /\ LET n == DelayedBackups(backupFunctionNames)
           invs == [i \in Participants |->
                      IF i >= 1 /\ i <= n THEN "pending" ELSE inv[i]]
           r == IF promise = "pending" /\ AllSettled(invs, n) /\ AllFailRejects(invs, n)
                THEN "reject" ELSE "none"
       IN  /\ inv' = invs
           /\ sent' = [i \in Participants |-> InvokedByTimer(i, n, sent[i])]
           /\ timeoutId' = [timeoutId EXCEPT !.inv =
                               [i \in Participants |->
                                   IF i >= 1 /\ i <= n THEN "armed" ELSE @[i]]]
           /\ hedgePromises' = n
           /\ promise' = IF r = "reject" THEN "rejected" ELSE promise
           /\ thrown' = IF r = "reject" THEN Rejection("DELAYED_HEDGE", 0, inv[0]) ELSE thrown
           /\ Continue(r)
    /\ allWatch' = TRUE
    /\ UNCHANGED <<backupFunctionNames, enableSpeculative, metricsTable, event,
                   strategy, result, specInv, putItem, requests, firstOk, now,
                   recentMetrics>>
    /\ firedWith' = inv[0]
    /\ UNCHANGED <<raceVars, gateVars, timingVars>>

\* (mutant) the failure of a speculative follow-up is not caught
SettleSpeculativeUncaught(k, ok) ==
    /\ k \in DOMAIN specInv
    /\ specInv[k] = "pending"
    /\ specInv' = [specInv EXCEPT ![k] = IF ok THEN "payload" ELSE "thrown"]
    /\ timeoutId' = [timeoutId EXCEPT !.spec[k] = "cleared"]
    /\ hpc' = IF ok THEN hpc ELSE "thrown"
    /\ UNCHANGED <<backupFunctionNames, enableSpeculative, metricsTable, event,
                   strategy, inv, hedgeTimer, hedgePromises, allWatch, promise,
                   result, thrown, putCalls, putItem, requests, firstOk, firedWith,
                   now, recentMetrics, sent>>
    /\ UNCHANGED <<raceVars, gateVars, timingVars>>

\* a speculative follow-up settles; its outcome is ignored
SettleSpeculative(k, ok) ==
    /\ k \in DOMAIN specInv
    /\ specInv[k] = "pending"
    /\ specInv' = [specInv EXCEPT ![k] = IF ok THEN "payload" ELSE "caught"]
    /\ timeoutId' = [timeoutId EXCEPT !.spec[k] = "cleared"]
    /\ UNCHANGED <<backupFunctionNames, enableSpeculative, metricsTable, hpc, event,
                   strategy, inv, hedgeTimer, hedgePromises, allWatch, promise,
                   result, thrown, putCalls, putItem, requests, firstOk, firedWith,
                   now, recentMetrics, sent>>
    /\ UNCHANGED <<raceVars, gateVars, timingVars>>

\* the item recordExecutionMetrics writes
MetricsItem(latency) ==
    LET endTime == now + latency
    IN  [timestamp |-> endTime,
         latency |-> latency,
         success |-> ~result.errorField,
         strategy |-> strategy.type,
         strategyReason |-> strategy.reason,
         ttl |-> (endTime \div 1000) + TtlSeconds]

\* what the metrics query and the statistics read of an item
Stored(item) == [timestamp |-> item.timestamp, latency |-> item.latency,
                 success |-> item.success, ttl |-> item.ttl]

\* (mutant) a failed PutItem is rethrown
RecordDoneThrows(latency, putOk) ==
    /\ hpc = "recording"
    /\ putItem' = MetricsItem(latency)
    /\ metricsTable' = IF putOk THEN Append(metricsTable, Stored(MetricsItem(latency)))
                       ELSE metricsTable
    /\ hpc' = IF putOk THEN "returned" ELSE "thrown"
    /\ UNCHANGED <<backupFunctionNames, enableSpeculative, event, strategy, inv,
                   hedgeTimer, hedgePromises, allWatch, promise, result, thrown,
                   specInv, putCalls, requests, firstOk, firedWith, now,
                   recentMetrics, timeoutId, sent>>
    /\ UNCHANGED <<raceVars, gateVars, timingVars>>

\* the PutItem of recordExecutionMetrics settles (a failure is only logged)
\* and the handler returns the result; latency is Date.now() - startTime
RecordDone(latency, putOk) ==
    /\ hpc = "recording"
    /\ putItem' = MetricsItem(latency)
    /\ metricsTable' = IF putOk THEN Append(metricsTable, Stored(MetricsItem(latency)))
                       ELSE metricsTable
    /\ hpc' = "returned"
    /\ UNCHANGED <<backupFunctionNames, enableSpeculative, event, strategy, inv,
                   hedgeTimer, hedgePromises, allWatch, promise, result, thrown,
                   specInv, putCalls, requests, firstOk, firedWith, now,
                   recentMetrics, timeoutId, sent>>
    /\ UNCHANGED <<raceVars, gateVars, timingVars>>

HedgeNext ==
    \/ \E ev \in Events, elapsed \in Burst : StartRequest(ev, elapsed)
    \/ \E queryOk \in BOOLEAN : Decide(queryOk)
    \/ \E i \in Participants, out \in Outcomes : Settle(i, out)
    \/ HedgeTimerFires
    \/ \E k \in 1..2, ok \in BOOLEAN : SettleSpeculative(k, ok)
    \/ \E latency \in Latencies, putOk \in BOOLEAN : RecordDone(latency, putOk)

(***************************************************************************)
(* The superposition workflow and its coordinator                          *)
(*                                                                         *)
(* The task result of path i is stored at $.results[i]; its Payload is the *)
(* JSON text of what the function returned.  The coordinator's return      *)
(* value is what EvaluateQuantumResults reads at $.measurement.  A         *)
(* Parallel state fails as soon as one of its branches fails, and its      *)
(* other branches are stopped.  HandleParallelFailure, the catcher of      *)
(* QuantumParallel, is given no next state, so it ends the execution.      *)
(***************************************************************************)
Paths == 0..(parallelFunctions - 1)

StatusCodes == {200, 500}

\* what a path function returns: a JSON object with a statusCode and, when
\* executionTime > 0, a top-level executionTime; text that does not parse;
\* or nothing (no Payload)
Returns ==
    [kind : {"json"}, statusCode : StatusCodes, executionTime : 0..MaxExecutionTime]
    \cup {[kind |-> "unparsable", statusCode |-> 0, executionTime |-> 0],
          [kind |-> "empty", statusCode |-> 0, executionTime |-> 0]}

NoReturn == [kind |-> "none", statusCode |-> 0, executionTime |-> 0]

\* $.metadata.startTime, and Date.now() in performQuantumMeasurement, on a
\* clock that ticks with every path that returns
StartTimeMs == 0
MeasurementTimestamp == MaxPaths + MaxExecutionTime + 1

NoWinner == [pathId |-> -1, statusCode |-> 0, executionTime |-> 0, latency |-> 0]

\* result && result.Payload
HasPayload(r) == r.kind \in {"json", "unparsable"}

\* the loop of performQuantumMeasurement from index i on, winningResult being
\* the winner so far (fastestTime is Infinity while there is none)
RECURSIVE Collapse(_, _, _, _)
Collapse(res, n, i, winningResult) ==
    IF i >= n THEN winningResult
    ELSE LET r == res[i]
             \* payload.executionTime || timestamp
             executionTime == IF r.executionTime # 0 THEN r.executionTime
                              ELSE MeasurementTimestamp
             faster == winningResult.pathId = -1
                       \/ executionTime < winningResult.executionTime
         IN  IF HasPayload(r) /\ r.kind = "json" /\ r.statusCode = 200 /\ faster
             THEN Collapse(res, n, i + 1,
                           [pathId |-> i, statusCode |-> r.statusCode,
                            executionTime |-> executionTime,
                            latency |-> executionTime - StartTimeMs])
             ELSE Collapse(res, n, i + 1, winningResult)

\* the MEASUREMENT item
MeasurementRecord(res, n, winningResult) ==
    [type |-> "MEASUREMENT",
     winningPath |-> winningResult.pathId,
     totalPaths |-> n,
     successfulPaths |-> Cardinality({i \in 0..(n - 1) : HasPayload(res[i])}),
     latency |-> IF winningResult.pathId = -1 THEN -1 ELSE winningResult.latency]

\* what performQuantumMeasurement returns
performQuantumMeasurement(res, n) ==
    LET winningResult == Collapse(res, n, 0, NoWinner)
    IN  IF winningResult.pathId # -1
        THEN [status |-> "collapsed",
              hasResult |-> TRUE,
              winningPath |-> winningResult.pathId,
              latency |-> winningResult.latency,
              totalPaths |-> n]
        ELSE [status |-> "decoherent",
              hasResult |-> FALSE,
              winningPath |-> -1,
              latency |-> -1,
              totalPaths |-> n]

NoMeasurement == [status |-> "none", hasResult |-> FALSE, winningPath |-> -1,
                  latency |-> -1, totalPaths |-> 0]

RaceIdle ==
    /\ parallelFunctions = 1
    /\ wf = "none"
    /\ execStatus = "none"
    /\ execError = "none"
    /\ branch = [i \in 0..(MaxPaths - 1) |-> "none"]
    /\ results = [i \in 0..(MaxPaths - 1) |-> NoReturn]
    /\ finished = <<>>
    /\ wfError = "none"
    /\ measurement = NoMeasurement
    /\ resultTable = <<>>

\* an execution of the state machine has started
RaceInit ==
    /\ parallelFunctions \in 1..MaxPaths
    /\ wf = "InitializeQuantumState"
    /\ execStatus = "RUNNING"
    /\ execError = "none"
    /\ branch = [i \in 0..(MaxPaths - 1) |-> "none"]
    /\ results = [i \in 0..(MaxPaths - 1) |-> NoReturn]
    /\ finished = <<>>
    /\ wfError = "none"
    /\ measurement = NoMeasurement
    /\ resultTable = <<>>

\* InitializeQuantumState: a Pass state
InitializeQuantumState ==
    /\ wf = "InitializeQuantumState"
    /\ wf' = "StoreInitialState"
    /\ UNCHANGED <<parallelFunctions, execStatus, execError, branch, results,
                   finished, wfError, measurement, resultTable>>
    /\ UNCHANGED <<hedgeVars, gateVars, timingVars>>

\* StoreInitialState: the coordinator's initializeExecution; a failed PutItem
\* is rethrown by the handler and the task has no catcher
StoreInitialState(putOk) ==
    /\ wf = "StoreInitialState"
    /\ IF putOk
       THEN /\ resultTable' = Append(resultTable, [type |-> "INITIALIZATION"])
            /\ wf' = "QuantumParallel"
            /\ branch' = [i \in 0..(MaxPaths - 1) |->
                            IF i \in Paths THEN "running" ELSE "none"]
            /\ UNCHANGED <<execStatus, execError>>
       ELSE /\ execStatus' = "FAILED"
            /\ execError' = "TaskFailed"
            /\ UNCHANGED <<wf, branch, resultTable>>
    /\ UNCHANGED <<parallelFunctions, results, finished, wfError, measurement>>
    /\ UNCHANGED <<hedgeVars, gateVars, timingVars>>

\* the state after QuantumParallel once branch i has returned
AfterReturn(branches) ==
    IF \A j \in Paths : branches[j] = "returned"
    THEN "QuantumMeasurement" ELSE "QuantumParallel"

\* QuantumPath<i> returns ret
PathReturns(i, ret) ==
    /\ wf = "QuantumParallel"
    /\ execStatus = "RUNNING"
    /\ i \in Paths
    /\ branch[i] = "running"
    /\ branch' = [branch EXCEPT ![i] = "returned"]
    /\ results' = [results EXCEPT ![i] = ret]
    /\ finished' = Append(finished, i)
    /\ wf' = AfterReturn(branch')
    /\ UNCHANGED <<parallelFunctions, execStatus, execError, wfError, measurement,
                   resultTable>>
    /\ UNCHANGED <<hedgeVars, gateVars, timingVars>>

\* the state the catcher of QuantumParallel leads to
CatchTarget == "HandleParallelFailure"

\* QuantumPath<i> fails (the function throws, or the task's timeout expires):
\* QuantumParallel fails, its other branches stop, and its catcher takes over
PathFails(i, how) ==
    /\ wf = "QuantumParallel"
    /\ execStatus = "RUNNING"
    /\ i \in Paths
    /\ branch[i] = "running"
    /\ branch' = [j \in 0..(MaxPaths - 1) |->
                    IF j = i THEN how
                    ELSE IF branch[j] = "running" THEN "stopped" ELSE branch[j]]
    /\ wf' = CatchTarget
    /\ wfError' = "QuantumDecoherence"
    /\ UNCHANGED <<parallelFunctions, execStatus, execError, results, finished,
                   measurement, resultTable>>
    /\ UNCHANGED <<hedgeVars, gateVars, timingVars>>

\* HandleParallelFailure: a Pass state with no next state
HandleParallelFailure ==
    /\ wf = "HandleParallelFailure"
    /\ execStatus = "RUNNING"
    /\ execStatus' = "SUCCEEDED"
    /\ UNCHANGED <<parallelFunctions, wf, execError, branch, results, finished,
                   wfError, measurement, resultTable>>
    /\ UNCHANGED <<hedgeVars, gateVars, timingVars>>

\* QuantumMeasurement: the coordinator's performQuantumMeasurement
QuantumMeasurement(putOk) ==
    /\ wf = "QuantumMeasurement"
    /\ execStatus = "RUNNING"
    /\ IF putOk
       THEN /\ resultTable' = Append(resultTable,
                    MeasurementRecord(results, parallelFunctions,
                                      Collapse(results, parallelFunctions, 0, NoWinner)))
            /\ measurement' = performQuantumMeasurement(results, parallelFunctions)
            /\ wf' = "EvaluateQuantumResults"
            /\ UNCHANGED <<execStatus, execError>>
       ELSE /\ execStatus' = "FAILED"
            /\ execError' = "TaskFailed"
            /\ UNCHANGED <<wf, measurement, resultTable>>
    /\ UNCHANGED <<parallelFunctions, branch, results, finished, wfError>>
    /\ UNCHANGED <<hedgeVars, gateVars, timingVars>>

\* EvaluateQuantumResults: isPresent($.measurement.result)
EvaluateQuantumResults ==
    /\ wf = "EvaluateQuantumResults"
    /\ IF measurement.hasResult
       THEN /\ wf' = "QuantumSuccess"
            /\ execStatus' = "SUCCEEDED"
            /\ UNCHANGED execError
       ELSE /\ wf' = "QuantumFailure"
            /\ execStatus' = "FAILED"
            /\ execError' = "QuantumDecoherence"
    /\ UNCHANGED <<parallelFunctions, branch, results, finished, wfError,
                   measurement, resultTable>>
    /\ UNCHANGED <<hedgeVars, gateVars, timingVars>>

RaceNext ==
    \/ InitializeQuantumState
    \/ \E putOk \in BOOLEAN : StoreInitialState(putOk)
    \/ \E i \in 0..(MaxPaths - 1), ret \in Returns : PathReturns(i, ret)
    \/ \E i \in 0..(MaxPaths - 1), how \in {"failed", "timedOut"} : PathFails(i, how)
    \/ HandleParallelFailure
    \/ \E putOk \in BOOLEAN : QuantumMeasurement(putOk)
    \/ EvaluateQuantumResults

(***************************************************************************)
(* The quantum gate: the router handler                                    *)
(*                                                                         *)
(* Path i of the model is executionPaths[i-1] of the router; 0 stands for  *)
(* undefined.  An entry of pathStats is keyed by the path's name.          *)
(***************************************************************************)
GatePaths == DOMAIN executionPaths

\* Math.random() * totalWeight, a number in [0, totalWeight): whole + a
\* fraction that is zero (frac FALSE) or anything in (0, 1) (frac TRUE)
WeightedDraws(totalWeight) ==
    IF totalWeight = 0 THEN {[whole |-> 0, frac |-> FALSE]}
    ELSE [whole : 0..(totalWeight - 1), frac : BOOLEAN]

\* the two powers betaSample computes from its two draws, Math.pow(x, 1/alpha)
\* and Math.pow(y, 1/beta): each is zero or positive (1 stands for a positive
\* power; two positive powers are taken to be equal)
Grid == {0, 1}
BetaDraws == [px : Grid, py : Grid]

NoDraw == [random |-> [whole |-> 0, frac |-> FALSE], samples |-> <<>>]

NoStats == [present |-> FALSE, successCount |-> 0, totalCount |-> 0,
            avgLatency |-> [num |-> 0, den |-> 1], totalLatency |-> 0]

\* pathStats[path.name] || { successCount: 1, totalCount: 2, avgLatency: 1000 }
StatsOrDefault(stats) ==
    IF stats.present THEN stats
    ELSE [present |-> FALSE, successCount |-> 1, totalCount |-> 2,
          avgLatency |-> [num |-> 1000, den |-> 1], totalLatency |-> 0]

RECURSIVE SumWeights(_, _)
SumWeights(paths, i) ==
    IF i > Len(paths) THEN 0 ELSE paths[i] + SumWeights(paths, i + 1)

\* executionPaths.reduce((sum, path) => sum + path.weight, 0)
TotalWeight(paths) == SumWeights(paths, 1)

\* (mutant) random < 0
BelowZero(whole, frac) == whole < 0

\* random <= 0, for random = whole + fraction
AtMostZero(whole, frac) == IF frac THEN whole < 0 ELSE whole <= 0

\* the loop of weightedRandomSelection from path i on
RECURSIVE WeightedLoop(_, _, _, _)
WeightedLoop(paths, i, whole, frac) ==
    IF i > Len(paths)
    THEN (IF Len(paths) > 0 THEN 1 ELSE 0)          \* executionPaths[0]
    ELSE IF AtMostZero(whole - paths[i], frac) THEN i
    ELSE WeightedLoop(paths, i + 1, whole - paths[i], frac)

weightedRandomSelection(paths, random) ==
    WeightedLoop(paths, 1, random.whole, random.frac)

\* numbers as the router computes them: a quotient, Infinity, -Infinity, NaN
Fin(num, den) == [kind |-> "fin", num |-> num, den |-> den]
Infinity == [kind |-> "inf", num |-> 0, den |-> 1]
MinusInfinity == [kind |-> "neginf", num |-> 0, den |-> 1]
NaN == [kind |-> "nan", num |-> 0, den |-> 1]

\* a > b
Greater(a, b) ==
    CASE a.kind = "nan" \/ b.kind = "nan" -> FALSE
      [] a.kind = "inf" -> b.kind # "inf"
      [] a.kind = "neginf" -> FALSE
      [] b.kind = "inf" -> FALSE
      [] b.kind = "neginf" -> TRUE
      [] OTHER -> a.num * b.den > b.num * a.den

\* Math.pow(x, 1/alpha) / (Math.pow(x, 1/alpha) + Math.pow(y, 1/beta))
betaSample(alpha, beta, draw) ==
    IF draw.px + draw.py = 0 THEN NaN ELSE Fin(draw.px, draw.px + draw.py)

\* sample / (avgLatency / 1000)
Score(sample, avgLatency) ==
    CASE sample.kind = "nan" -> NaN
      [] avgLatency.num = 0 -> IF sample.num = 0 THEN NaN ELSE Infinity
      [] OTHER -> Fin(sample.num * 1000 * avgLatency.den,
                      sample.den * avgLatency.num)

\* alpha and beta of the Beta distribution sampled for a path with stats
BetaParameters(stats) ==
    [alpha |-> stats.successCount + 1,
     beta |-> stats.totalCount - stats.successCount + 1]

\* (mutant) sample >= bestSample: the last of the paths with equal scores wins
RECURSIVE ThompsonLoopLastWins(_, _, _, _, _, _)
ThompsonLoopLastWins(paths, allStats, samples, i, bestPath, bestSample) ==
    IF i > Len(paths) THEN bestPath
    ELSE LET stats == StatsOrDefault(allStats[i])
             sample == Score(betaSample(BetaParameters(stats).alpha,
                                        BetaParameters(stats).beta, samples[i]),
                             stats.avgLatency)
         IN  IF Greater(sample, bestSample)
                \/ (sample.kind # "nan" /\ bestSample.kind # "nan"
                       /\ ~Greater(bestSample, sample))
             THEN ThompsonLoopLastWins(paths, allStats, samples, i + 1, i, sample)
             ELSE ThompsonLoopLastWins(paths, allStats, samples, i + 1, bestPath,
                                       bestSample)

\* the loop of thompsonSampling from path i on
RECURSIVE ThompsonLoop(_, _, _, _, _, _)
ThompsonLoop(paths, allStats, samples, i, bestPath, bestSample) ==
    IF i > Len(paths) THEN bestPath
    ELSE LET stats == StatsOrDefault(allStats[i])
             alpha == BetaParameters(stats).alpha
             beta == BetaParameters(stats).beta
             sample == Score(betaSample(alpha, beta, samples[i]), stats.avgLatency)
         IN  IF Greater(sample, bestSample)
             THEN ThompsonLoop(paths, allStats, samples, i + 1, i, sample)
             ELSE ThompsonLoop(paths, allStats, samples, i + 1, bestPath, bestSample)

\* (mutant) return bestPath, without the fallback to executionPaths[0]
thompsonSamplingNoFallback(paths, allStats, samples) ==
    ThompsonLoop(paths, allStats, samples, 1, 0, MinusInfinity)

thompsonSampling(paths, allStats, samples) ==
    LET bestPath == ThompsonLoop(paths, allStats, samples, 1, 0, MinusInfinity)
    IN  IF bestPath # 0 THEN bestPath                \* bestPath || executionPaths[0]
        ELSE IF Len(paths) > 0 THEN 1 ELSE 0

RECURSIVE SumTotalCount(_, _)
SumTotalCount(allStats, i) ==
    IF i > Len(allStats) THEN 0
    ELSE (IF allStats[i].present THEN allStats[i].totalCount ELSE 0)
         + SumTotalCount(allStats, i + 1)

\* (mutant) more samples than minSampleSize are required
hasMoreSamples(allStats, minimum) == SumTotalCount(allStats, 1) > minimum

\* (mutant) every path must have minSampleSize samples of its own
hasEnoughSamplesOnEveryPath(allStats, minimum) ==
    \A i \in DOMAIN allStats : allStats[i].present /\ allStats[i].totalCount >= minimum

hasEnoughSamples(allStats, minimum) == SumTotalCount(allStats, 1) >= minimum

\* the algorithm selectExecutionPath uses
selectExecutionPath(adaptive, allStats, minimum) ==
    IF adaptive /\ hasEnoughSamples(allStats, minimum)
    THEN "thompsonSampling" ELSE "weightedRandomSelection"

\* (mutant) the entry is created anew at every update
updatePathStatsNewEntry(allStats, i, latency, success) ==
    [allStats EXCEPT ![i] =
        [present |-> TRUE,
         successCount |-> IF success THEN 1 ELSE 0,
         totalCount |-> 1,
         avgLatency |-> [num |-> latency, den |-> 1],
         totalLatency |-> latency]]

\* (mutant) avgLatency is computed before latency is added to totalLatency
updatePathStatsStaleAverage(allStats, i, latency, success) ==
    LET old == IF allStats[i].present THEN allStats[i]
               ELSE [NoStats EXCEPT !.present = TRUE]
    IN  [allStats EXCEPT ![i] =
            [present |-> TRUE,
             successCount |-> IF success THEN old.successCount + 1
                              ELSE old.successCount,
             totalCount |-> old.totalCount + 1,
             avgLatency |-> [num |-> old.totalLatency, den |-> old.totalCount + 1],
             totalLatency |-> old.totalLatency + latency]]

\* pathStats after updatePathStats(pathName, latency, success)
updatePathStats(allStats, i, latency, success) ==
    LET old == IF allStats[i].present THEN allStats[i]
               ELSE [NoStats EXCEPT !.present = TRUE]
        totalCount == old.totalCount + 1
        totalLatency == old.totalLatency + latency
    IN  [allStats EXCEPT ![i] =
            [present |-> TRUE,
             successCount |-> IF success THEN old.successCount + 1
                              ELSE old.successCount,
             totalCount |-> totalCount,
             avgLatency |-> [num |-> totalLatency, den |-> totalCount],
             totalLatency |-> totalLatency]]

RouterRequests == 1..MaxRouterRequests

\* what the selected function's invocation returns: JSON with a statusCode
\* (0: without one), or text that does not parse
GateReturns == [kind : {"json"}, statusCode : {0, 500}]
               \cup {[kind |-> "unparsable", statusCode |-> 0]}

\* endTime - startTime of the router's invocation
RouterLatencies == {0, 1000}

\* latency is endTime - startTime of the handler, -1 before it is computed;
\* timeoutId is the abort timer of the invocation: the handler sets none;
\* payload is result.Payload of the invocation and body the response's body
NoRouting == [pc |-> "idle", algorithm |-> "none", selected |-> 0,
              latency |-> -1, statusCode |-> 0, quantumPath |-> 0,
              timeoutId |-> "unset", payload |-> "none", body |-> "none"]

\* the response of the catch block: statusCode 500, no X-Quantum-Path
ErrorResponse(req) ==
    [req EXCEPT !.pc = "returned", !.statusCode = 500, !.quantumPath = 0,
                !.body = "error"]

\* no request has reached the router
RouterIdle ==
    /\ pathStats = [i \in GatePaths |-> NoStats]
    /\ router = [r \in RouterRequests |-> NoRouting]

\* the gate as the demo stack configures it, idle
GateIdle ==
    /\ executionPaths = <<40, 30, 30>>
    /\ enableAdaptiveRouting = TRUE
    /\ minSampleSize = 50
    /\ RouterIdle

\* the statistics of a path after count successful requests of latency each
Observed(count, latency) ==
    [present |-> TRUE, successCount |-> count, totalCount |-> count,
     avgLatency |-> [num |-> count * latency, den |-> count],
     totalLatency |-> count * latency]

\* the statistics of a path in a process that has served requests before
PriorStats == {NoStats} \cup {Observed(count, 1000) : count \in 1..MaxRouterRequests}

\* the router as it can be configured, with weights from the set weights and
\* statistics from the set priors, no request being handled
GateConfig(weights, priors) ==
    /\ executionPaths \in UNION {[1..n -> weights] : n \in 0..MaxGatePaths}
    /\ enableAdaptiveRouting \in BOOLEAN
    /\ minSampleSize \in IF enableAdaptiveRouting THEN 1..MaxRouterRequests ELSE {1}
    /\ pathStats \in [GatePaths -> priors]
    /\ router = [r \in RouterRequests |-> NoRouting]

\* a new process, with paths of weight 0 or 1
GateInit == GateConfig(0..1, {NoStats})

\* a process that may have served requests, with paths of any weight
SelectionInit == GateConfig(0..MaxWeight, PriorStats)

\* the draws a selection makes: random in weightedRandomSelection, samples
\* (one pair for each path) in thompsonSampling
RandomDraws == WeightedDraws(TotalWeight(executionPaths))
SampleDraws == [GatePaths -> BetaDraws]
Draws(algorithm) ==
    IF algorithm = "thompsonSampling"
    THEN {[random |-> NoDraw.random, samples |-> s] : s \in SampleDraws}
    ELSE {[random |-> d, samples |-> <<>>] : d \in RandomDraws}

\* (mutant) the selection is counted as an observation of the selected path
SelectAndInvokeCounting(r, draw) ==
    /\ router[r].pc = "idle"
    /\ \A q \in RouterRequests : q < r => router[q].pc # "idle"
    /\ LET algorithm == selectExecutionPath(enableAdaptiveRouting, pathStats,
                                            minSampleSize)
           selectedPath ==
               IF algorithm = "thompsonSampling"
               THEN thompsonSampling(executionPaths, pathStats, draw.samples)
               ELSE weightedRandomSelection(executionPaths, draw.random)
           req == [router[r] EXCEPT !.algorithm = algorithm,
                                    !.selected = selectedPath]
       IN  /\ router' = [router EXCEPT ![r] =
                            IF selectedPath = 0 THEN ErrorResponse(req)
                            ELSE [req EXCEPT !.pc = "invoking"]]
           /\ pathStats' = IF selectedPath = 0 THEN pathStats
                           ELSE updatePathStats(pathStats, selectedPath, 0, TRUE)
    /\ UNCHANGED <<executionPaths, enableAdaptiveRouting, minSampleSize>>
    /\ UNCHANGED <<hedgeVars, raceVars, timingVars>>

\* the handler is entered for request r (requests are numbered in the order
\* they arrive): the path is selected, with the draws random and samples, and
\* its function invoked
SelectAndInvoke(r, draw) ==
    /\ router[r].pc = "idle"
    /\ \A q \in RouterRequests : q < r => router[q].pc # "idle"
    /\ LET algorithm == selectExecutionPath(enableAdaptiveRouting, pathStats,
                                            minSampleSize)
           selectedPath ==
               IF algorithm = "thompsonSampling"
               THEN thompsonSampling(executionPaths, pathStats, draw.samples)
               ELSE weightedRandomSelection(executionPaths, draw.random)
           req == [router[r] EXCEPT !.algorithm = algorithm,
                                    !.selected = selectedPath]
       IN  router' = [router EXCEPT ![r] =
                            \* selectedPath.functionName of undefined throws
                            IF selectedPath = 0 THEN ErrorResponse(req)
                            ELSE [req EXCEPT !.pc = "invoking"]]
    /\ UNCHANGED <<executionPaths, enableAdaptiveRouting, minSampleSize, pathStats>>
    /\ UNCHANGED <<hedgeVars, raceVars, timingVars>>

RouterStart(r) ==
    \E draw \in Draws(selectExecutionPath(enableAdaptiveRouting, pathStats,
                                          minSampleSize)) :
        SelectAndInvoke(r, draw)

\* (mutant) the payload is parsed outside the try block
RouterInvokeReturnsUncaught(r, ret, latency) ==
    /\ router[r].pc = "invoking"
    /\ pathStats' = updatePathStats(pathStats, router[r].selected, latency, TRUE)
    /\ router' = [router EXCEPT ![r] =
                    IF ret.kind = "unparsable"
                    THEN [@ EXCEPT !.pc = "thrown", !.latency = latency,
                                   !.payload = ret.kind]
                    ELSE [@ EXCEPT !.pc = "returned",
                                   !.latency = latency,
                                   !.payload = ret.kind,
                                   !.body = "payload",
                                   !.statusCode = IF ret.statusCode = 0 THEN 200
                                                  ELSE ret.statusCode,
                                   !.quantumPath = router[r].selected]]
    /\ UNCHANGED <<executionPaths, enableAdaptiveRouting, minSampleSize>>
    /\ UNCHANGED <<hedgeVars, raceVars, timingVars>>

\* the invocation of request r returns ret after latency: the statistics are
\* updated, then the payload is parsed and the response returned
RouterInvokeReturns(r, ret, latency) ==
    /\ router[r].pc = "invoking"
    /\ pathStats' = updatePathStats(pathStats, router[r].selected, latency, TRUE)
    /\ router' = [router EXCEPT ![r] =
                    IF ret.kind = "unparsable"
                    THEN ErrorResponse([@ EXCEPT !.latency = latency,
                                                !.payload = ret.kind])
                    ELSE [@ EXCEPT !.pc = "returned",
                                   !.latency = latency,
                                   !.payload = ret.kind,
                                   \* payload.body || JSON.stringify(payload)
                                   !.body = "payload",
                                   \* payload.statusCode || 200
                                   !.statusCode = IF ret.statusCode = 0 THEN 200
                                                  ELSE ret.statusCode,
                                   !.quantumPath = router[r].selected]]
    /\ UNCHANGED <<executionPaths, enableAdaptiveRouting, minSampleSize>>
    /\ UNCHANGED <<hedgeVars, raceVars, timingVars>>

\* (mutant) the catch block records the failure: updatePathStats(name, 0, false)
RouterInvokeFailsRecorded(r) ==
    /\ router[r].pc = "invoking"
    /\ router' = [router EXCEPT ![r] = ErrorResponse(@)]
    /\ pathStats' = updatePathStats(pathStats, router[r].selected, 0, FALSE)
    /\ UNCHANGED <<executionPaths, enableAdaptiveRouting, minSampleSize>>
    /\ UNCHANGED <<hedgeVars, raceVars, timingVars>>

\* the invocation of request r fails: the catch block returns the error response
RouterInvokeFails(r) ==
    /\ router[r].pc = "invoking"
    /\ router' = [router EXCEPT ![r] = ErrorResponse(@)]
    /\ UNCHANGED <<executionPaths, enableAdaptiveRouting, minSampleSize, pathStats>>
    /\ UNCHANGED <<hedgeVars, raceVars, timingVars>>

GateNext ==
    \/ \E r \in RouterRequests : RouterStart(r)
    \/ \E r \in RouterRequests, ret \in GateReturns, latency \in RouterLatencies :
          RouterInvokeReturns(r, ret, latency)
    \/ \E r \in RouterRequests : RouterInvokeFails(r)

(***************************************************************************)
(* The timers of a delayed hedge                                           *)
(*                                                                         *)
(* A delayed hedge none of whose invocations answers: the primary is       *)
(* aborted by its timeout, the backups start when the hedge timer fires    *)
(* and are aborted by theirs, and the orchestrator function is stopped at  *)
(* its own timeout.  The timers fire in the order of their times.          *)
(***************************************************************************)
\* hedgeThresholdMs as a deployment can configure it
Thresholds == {hedgeThresholdMs} \cup {1000 * k : k \in 1..MaxThresholdSeconds}

\* setTimeout(..., hedgeThresholdMs): the delay of the hedge timer
HedgeDelayMs(threshold) == threshold
\* the timeout of the primary of a delayed hedge: hedgeThresholdMs * 3
PrimaryTimeoutMs(threshold) == threshold * 3
\* the timeout of a backup of a delayed hedge: hedgeThresholdMs
BackupTimeoutMs(threshold) == threshold

NoAttempt == [primary |-> "pending", backup |-> "none"]

\* no delayed hedge is being timed
TimingIdle ==
    /\ hedgeThreshold = hedgeThresholdMs
    /\ clock = 0
    /\ attempt = NoAttempt
    /\ orchestrator = "running"

\* the orchestrator has just started the primary of a delayed hedge
TimingInit ==
    /\ hedgeThreshold \in Thresholds
    /\ clock = 0
    /\ attempt = NoAttempt
    /\ orchestrator = "running"

\* the times at which the timers that are set fire
PendingTimers ==
    {OrchestratorTimeoutMs}
    \cup (IF attempt.primary = "pending"
          THEN {PrimaryTimeoutMs(hedgeThreshold)} ELSE {})
    \cup (IF attempt.backup = "none" THEN {HedgeDelayMs(hedgeThreshold)} ELSE {})
    \cup (IF attempt.backup = "pending"
          THEN {HedgeDelayMs(hedgeThreshold) + BackupTimeoutMs(hedgeThreshold)}
          ELSE {})

\* the timer set for time t is the next to fire
FiresNext(t) ==
    /\ orchestrator = "running"
    /\ \A u \in PendingTimers : t <= u
    /\ clock' = t

\* the hedge timer fires and the backups are invoked
HedgeDelayElapses ==
    /\ attempt.backup = "none"
    /\ FiresNext(HedgeDelayMs(hedgeThreshold))
    /\ attempt' = [attempt EXCEPT !.backup = "pending"]
    /\ UNCHANGED <<hedgeThreshold, orchestrator>>
    /\ UNCHANGED <<hedgeVars, raceVars, gateVars>>

\* the timeout of the primary aborts it
PrimaryTimesOut ==
    /\ attempt.primary = "pending"
    /\ FiresNext(PrimaryTimeoutMs(hedgeThreshold))
    /\ attempt' = [attempt EXCEPT !.primary = "aborted"]
    /\ UNCHANGED <<hedgeThreshold, orchestrator>>
    /\ UNCHANGED <<hedgeVars, raceVars, gateVars>>

\* the timeout of the backups aborts them
BackupTimesOut ==
    /\ attempt.backup = "pending"
    /\ FiresNext(HedgeDelayMs(hedgeThreshold) + BackupTimeoutMs(hedgeThreshold))
    /\ attempt' = [attempt EXCEPT !.backup = "aborted"]
    /\ UNCHANGED <<hedgeThreshold, orchestrator>>
    /\ UNCHANGED <<hedgeVars, raceVars, gateVars>>

\* the orchestrator function reaches its timeout and is stopped
OrchestratorTimesOut ==
    /\ FiresNext(OrchestratorTimeoutMs)
    /\ orchestrator' = "timedOut"
    /\ UNCHANGED <<hedgeThreshold, attempt>>
    /\ UNCHANGED <<hedgeVars, raceVars, gateVars>>

TimingNext ==
    \/ HedgeDelayElapses
    \/ PrimaryTimesOut
    \/ BackupTimesOut
    \/ OrchestratorTimesOut

(***************************************************************************)
(* Specifications                                                          *)
(***************************************************************************)
\* the orchestrator handling a burst of requests
Init == HedgeInit /\ RaceIdle /\ GateIdle /\ TimingIdle

Spec == Init /\ [][HedgeNext]_vars

\* the Deciding step of the orchestrator, over the contents the metrics table
\* can have and the times at which a request can arrive
Ages == Elapsed
TableItems == [timestamp : {Epoch - age : age \in Ages}, latency : Latencies,
               success : BOOLEAN]
WithTtl(m) == [timestamp |-> m.timestamp, latency |-> m.latency,
               success |-> m.success,
               ttl |-> (m.timestamp \div 1000) + TtlSeconds]
Tables ==
    {[k \in DOMAIN t |-> WithTtl(t[k])] :
        t \in {u \in UNION {[1..n -> TableItems] : n \in 0..MaxWindow} :
                  \A k \in 1..(Len(u) - 1) : u[k].timestamp <= u[k + 1].timestamp}}

StrategyInit ==
    /\ backupFunctionNames = 2
    /\ enableSpeculative \in BOOLEAN
    /\ metricsTable \in Tables
    /\ NoRequest
    /\ RaceIdle
    /\ GateIdle
    /\ TimingIdle

StrategyNext ==
    \/ \E ev \in Events, elapsed \in Elapsed : StartRequest(ev, elapsed)
    \/ \E queryOk \in BOOLEAN : Decide(queryOk)

StrategySpec == StrategyInit /\ [][StrategyNext]_vars

\* the router handling requests, concurrently
GateStart == HedgeIdle /\ RaceIdle /\ GateInit /\ TimingIdle

GateSpec == GateStart /\ [][GateNext]_vars

\* path selection for the next request to arrive, over the configurations and
\* the statistics of the router
SelectionStart == HedgeIdle /\ RaceIdle /\ SelectionInit /\ TimingIdle

SelectionNext == \E r \in {1} : RouterStart(r)

SelectionSpec == SelectionStart /\ [][SelectionNext]_vars

\* one execution of the superposition workflow
RaceStart == HedgeIdle /\ RaceInit /\ GateIdle /\ TimingIdle

\* the timers of a delayed hedge, over the thresholds that can be configured
TimingStart == HedgeIdle /\ RaceIdle /\ GateIdle /\ TimingInit

TimingSpec == TimingStart /\ [][TimingNext]_vars

RaceSpec == RaceStart /\ [][RaceNext]_vars

(***************************************************************************)
(* Properties of the hedge strategies                                      *)
(***************************************************************************)
Immediate == strategy.type = "IMMEDIATE_HEDGE"
Delayed == strategy.type = "DELAYED_HEDGE"

LaunchedParticipants == {i \in Participants : Launched(i)}
LaunchedBackups == {i \in Participants : i >= 1 /\ Launched(i)}

\* the message of the error thrown names source i
Names(err, i) == \E k \in DOMAIN err.message : err.message[k] = SourceName(i)

\* C1: in an immediate hedge, once some participant has returned a successful
\* result the request is resolved with the result of a successful participant
\* and has not raised, even if another participant failed before
C1_SuccessResolves ==
    (Immediate /\ \E i \in Participants : Succeeded(i))
        => (promise = "fulfilled" /\ inv[result.from] \in Payloads)

\* C2: a request that has ended, by returning or by throwing, has made exactly
\* one metrics write
C2_OneMetricsWrite ==
    hpc \in {"returned", "thrown"} => putCalls = 1

\* C3: in a delayed hedge, once the timer has fired and the primary and every
\* backup it launched have failed, the request is rejected with the aggregate
\* error
C3_AllFailedRejects ==
    (Delayed /\ hedgeTimer = "fired" /\ \A i \in 0..hedgePromises : Failed(i))
        => (promise = "rejected" /\ thrown.aggregate
            /\ thrown.message = <<"All hedged requests failed">>)

\* C4: in a delayed hedge whose timer fired while the primary was outstanding,
\* the backups are launched, and the request is resolved exactly when one of
\* {primary, launched backups} has succeeded, with the result of the first
\* of them to succeed
C4_FirstSuccessWins ==
    (Delayed /\ firedWith = "pending")
        => /\ \A i \in 1..DelayedBackups(backupFunctionNames) : Launched(i)
           /\ firstOk # -1 => /\ promise = "fulfilled"
                              /\ result.from = firstOk
                              /\ result.winner = SourceName(firstOk)
           /\ firstOk = -1 => promise # "fulfilled"

\* a backup won the race and the primary returned its own result afterwards
C4_Witness ==
    /\ Delayed /\ firedWith = "pending"
    /\ firstOk >= 1 /\ Succeeded(0)
    /\ promise = "fulfilled" /\ result.from = firstOk

\* C5: in a delayed hedge, after any step that leaves the primary succeeded
\* and before which the timer had not fired, the timer is cleared (so it never
\* fires), no backup has been invoked, and the request is resolved with the
\* primary's result, winner 'primary' and hedgesTriggered 0
C5_PrimaryBeforeTimer ==
    [][(/\ strategy'.type = "DELAYED_HEDGE"
        /\ requests' = requests
        /\ inv'[0] \in Payloads
        /\ hedgeTimer # "fired")
         => (/\ hedgeTimer' = "cleared"
             /\ \A i \in Participants : i >= 1 => inv'[i] = "none"
             /\ promise' = "fulfilled"
             /\ result'.from = 0
             /\ result'.winner = "primary"
             /\ result'.hedgesTriggered = 0)]_vars

\* the primary returned before the timer fired and the handler has returned
C5_Witness ==
    /\ Delayed /\ hedgeTimer = "cleared" /\ Succeeded(0)
    /\ hpc = "returned" /\ result.winner = "primary"

\* C6: in a delayed hedge, a primary that fails before the timer fires leaves
\* the request pending and the timer armed; when the timer then fires the
\* backups are launched; and the first backup to succeed resolves the request
\* with its result
C6_PrimaryFailsBeforeTimer ==
    [][/\ (/\ strategy'.type = "DELAYED_HEDGE"
           /\ inv'[0] \in Failures
           /\ hedgeTimer' # "fired")
            => (hedgeTimer' = "armed" /\ promise' = "pending" /\ hpc' = "executing")
       /\ (Delayed /\ inv[0] \in Failures /\ hedgeTimer = "armed")
            => /\ hedgeTimer' \in {"armed", "fired"}
               /\ hedgeTimer' = "fired"
                    => \A i \in 1..DelayedBackups(backupFunctionNames) :
                           inv'[i] = "pending"
       /\ (/\ strategy'.type = "DELAYED_HEDGE"
           /\ firedWith' \in Failures
           /\ firstOk' # -1)
            => (/\ firstOk' >= 1
                /\ promise' = "fulfilled"
                /\ result'.from = firstOk'
                /\ result'.winner = SourceName(firstOk'))]_vars

\* the primary failed, the timer fired afterwards, and a backup resolved the
\* request
C6_Witness ==
    /\ Delayed /\ firedWith \in Failures
    /\ promise = "fulfilled" /\ result.from >= 1 /\ Succeeded(result.from)

\* C7: a delayed hedge resolved by a backup names that backup as winner and
\* reports as hedgesTriggered the number of backups launched
C7_HedgeCount ==
    (Delayed /\ promise = "fulfilled" /\ result.from >= 1)
        => (/\ result.winner = SourceName(result.from)
            /\ result.hedgesTriggered = Cardinality(LaunchedBackups))

\* C8: an immediate hedge fails only once every launched participant has
\* failed, and then with one aggregate error naming every failed source
C8_AggregateNamesAll ==
    (Immediate /\ promise = "rejected")
        => (/\ \A i \in LaunchedParticipants : Failed(i)
            /\ thrown.aggregate
            /\ \A i \in LaunchedParticipants : Names(thrown, i))

(***************************************************************************)
(* Properties of the race                                                  *)
(***************************************************************************)
\* a successful result: a parseable payload with statusCode 200
Successful(ret) == ret.kind = "json" /\ ret.statusCode = 200

\* when path i returned, on the clock that ticks with every return
ReturnedAt(i) == CHOOSE k \in DOMAIN finished : finished[k] = i

SuccessfulPaths == {i \in Paths : branch[i] = "returned" /\ Successful(results[i])}

FirstSuccessful ==
    CHOOSE i \in SuccessfulPaths :
        \A j \in SuccessfulPaths : ReturnedAt(i) <= ReturnedAt(j)

Measured == measurement.status # "none"

\* C9: the winner the measurement reports is the candidate that was first to
\* return a successful result, whatever its index
C9_FirstSuccessIsWinner ==
    (Measured /\ SuccessfulPaths # {})
        => measurement.winningPath = FirstSuccessful

Terminal == execStatus \in {"SUCCEEDED", "FAILED"}

\* every candidate failed, timed out or returned something unsuccessful
AllCandidatesFailed ==
    \A i \in Paths :
        \/ branch[i] \in {"failed", "timedOut"}
        \/ branch[i] = "returned" /\ ~Successful(results[i])

\* C10: a race in which every candidate failed or timed out ends (a failure of
\* the coordinator's own table write aside) in QuantumFailure with error
\* QuantumDecoherence and a measurement of status 'decoherent' that carries no
\* winner and no result
C10_Decoherence ==
    (Terminal /\ AllCandidatesFailed /\ execError # "TaskFailed")
        => (/\ wf = "QuantumFailure"
            /\ execStatus = "FAILED"
            /\ execError = "QuantumDecoherence"
            /\ measurement.status = "decoherent"
            /\ ~measurement.hasResult
            /\ measurement.winningPath = -1)

\* the MEASUREMENT records in the result table
MeasurementRecords ==
    {k \in DOMAIN resultTable : resultTable[k].type = "MEASUREMENT"}

ParallelStarted == \E i \in Paths : branch[i] # "none"

\* C11: an execution that started its parallel paths and has ended (a failure
\* of the coordinator's own table write aside) has produced exactly one
\* MEASUREMENT record, whether or not a path failed or timed out
C11_MeasurementRecorded ==
    (Terminal /\ ParallelStarted /\ execError # "TaskFailed")
        => Cardinality(MeasurementRecords) = 1

(***************************************************************************)
(* Properties of the Deciding step                                         *)
(***************************************************************************)
Decided == hpc = "executing"

\* the window's statistics, from their definitions
Failures_(w) == Cardinality({k \in DOMAIN w : ~w[k].success})
ErrorRateAbove5Percent(w) == Len(w) > 0 /\ Failures_(w) * 100 > 5 * Len(w)
\* nearest rank: the least latency that 95% of the window does not exceed
P95(w) ==
    IF Len(w) = 0 THEN 0
    ELSE LET atMost(v) == Cardinality({k \in DOMAIN w : w[k].latency <= v})
             ranks == {w[k].latency : k \in DOMAIN w}
         IN  CHOOSE v \in ranks :
                /\ atMost(v) * 100 >= 95 * Len(w)
                /\ \A u \in ranks : atMost(u) * 100 >= 95 * Len(w) => v <= u
AverageAbove(w, limit) == Len(w) > 0 /\ SumLatency(w) > limit * Len(w)

FirstMatchingRule(w, ev, speculative) ==
    IF ErrorRateAbove5Percent(w) THEN "IMMEDIATE_HEDGE"
    ELSE IF P95(w) > 2 * hedgeThresholdMs THEN "IMMEDIATE_HEDGE"
    ELSE IF AverageAbove(w, hedgeThresholdMs) THEN "DELAYED_HEDGE"
    ELSE IF speculative /\ ev.highValue THEN "SPECULATIVE"
    ELSE "PRIMARY_ONLY"

\* C12: the strategy decided is that of the first matching rule, in the order
\* error rate > 0.05, p95 > 2 x threshold, average > threshold, (speculative
\* enabled and high-value request), otherwise primary only; so SPECULATIVE is
\* never chosen when an earlier rule matches or speculative execution is off
C12_FirstMatchingRule ==
    Decided =>
        /\ strategy.type = FirstMatchingRule(recentMetrics, event, enableSpeculative)
        /\ strategy.type = "SPECULATIVE" =>
              /\ enableSpeculative /\ event.highValue
              /\ ~ErrorRateAbove5Percent(recentMetrics)
              /\ P95(recentMetrics) <= 2 * hedgeThresholdMs
              /\ ~AverageAbove(recentMetrics, hedgeThresholdMs)

\* a high-value request, speculative execution enabled, decided by the p95
\* rule over a window whose average is below the threshold
C12_Witness ==
    /\ Decided /\ event.highValue /\ enableSpeculative
    /\ Len(recentMetrics) = MaxWindow
    /\ ~ErrorRateAbove5Percent(recentMetrics)
    /\ ~AverageAbove(recentMetrics, hedgeThresholdMs)
    /\ strategy.reason = "High P95 latency"

(***************************************************************************)
(* Properties of the speculative strategy, the metadata, the errors and    *)
(* the metrics store                                                       *)
(***************************************************************************)
Speculative == strategy.type = "SPECULATIVE"

\* C13: in a speculative request whose primary has succeeded, the request is
\* resolved with the primary's result and goes on to return it, whatever the
\* speculative follow-ups do (succeed, fail, time out, never settle)
C13_SpeculativeReturnsPrimary ==
    (Speculative /\ Succeeded(0))
        => (/\ promise = "fulfilled"
            /\ result.from = 0
            /\ thrown = NoError
            /\ hpc \in {"recording", "returned"})

\* the request has returned while one follow-up had failed and another was
\* still outstanding
C13_Witness ==
    /\ Speculative /\ Succeeded(0) /\ hpc = "returned"
    /\ \E k \in DOMAIN specInv : specInv[k] = "caught"
    /\ \E k \in DOMAIN specInv : specInv[k] = "pending"

\* C14: in a speculative request the follow-up invocations are started
\* together with the primary, without waiting for it to settle (and so also
\* when it later fails)
C14_SpeculativeInParallel ==
    (Speculative /\ Launched(0))
        => Len(specInv) = generateSpeculativePayloads(event)

\* C15: a resolved request's metadata envelope holds the strategy name, the
\* strategy's reason, the winning source and the request id, the strategy
\* name being that of the strategy decided
C15_MetadataEnvelope ==
    promise = "fulfilled"
        => (/\ {"strategy", "reason", "winner", "requestId"} \subseteq result.metadataKeys
            /\ result.strategy = strategy.type)

\* C16: the error a failed request throws is an aggregate error that names
\* contributing sources, never the raw error of an invocation
C16_AggregateError ==
    hpc = "thrown"
        => (/\ thrown.aggregate
            /\ \E i \in LaunchedParticipants : Names(thrown, i))

\* C17: when the metrics query fails (it would have returned items) the
\* strategy is that of an empty window and the strategy is executed; when the
\* handler leaves recordExecutionMetrics, the write having failed or not, it
\* returns the result the strategy resolved with
C17_MetricsFailuresTolerated ==
    [][/\ (/\ hpc = "deciding" /\ hpc' # "deciding"
           /\ getRecentMetrics(metricsTable, now, TRUE) # <<>>
           /\ recentMetrics' = <<>>)
            => (/\ strategy'.type = IF enableSpeculative /\ event.highValue
                                    THEN "SPECULATIVE" ELSE "PRIMARY_ONLY"
                /\ hpc' = "executing"
                /\ inv'[0] = "pending")
       /\ (hpc = "recording" /\ hpc' # "recording")
            => (/\ hpc' = "returned"
                /\ promise' = "fulfilled"
                /\ result' = result)]_vars

\* a request whose metrics query failed over a non-empty table and whose
\* metrics write failed has returned
C17_Witness ==
    /\ hpc = "returned" /\ promise = "fulfilled"
    /\ metricsTable # <<>> /\ recentMetrics = <<>>
    /\ \A k \in DOMAIN metricsTable : metricsTable[k] # Stored(putItem)

\* the time to live of item m has passed at time t (milliseconds)
Expired(m, t) == (t \div 1000) > m.ttl

\* C18: the window the query returned holds no item whose time to live had
\* passed when the query was made, although expired items stay in the table
C18_NoExpiredInWindow ==
    \A k \in DOMAIN recentMetrics : ~Expired(recentMetrics[k], now)

\* a query returned items while the table held an expired one
C18_Witness ==
    /\ Decided /\ recentMetrics # <<>>
    /\ \E k \in DOMAIN metricsTable : Expired(metricsTable[k], now)

\* the percentiles calculatePercentileLatency is asked for
Percentiles == {0, 50, 95, 100}

\* ceil(p/100 x n): the least whole number c with 100 c >= p n
CeilOfShare(p, n) == CHOOSE c \in 0..n : 100 * c >= p * n /\ \A b \in 0..(c - 1) : 100 * b < p * n

\* v is the element at index (from 0) of the latencies of w sorted ascending:
\* at most index of them are below v and more than index are at most v
AtSortedIndex(w, index, v) ==
    /\ \E k \in DOMAIN w : w[k].latency = v
    /\ Cardinality({k \in DOMAIN w : w[k].latency < v}) <= index
    /\ Cardinality({k \in DOMAIN w : w[k].latency <= v}) > index

\* C34: over a window of n > 0 observations calculatePercentileLatency returns
\* the element at index max(0, ceil(p/100 x n) - 1), an index within 0..n-1, of
\* the latencies sorted ascending, and 0 over an empty window;
\* calculateErrorRate returns failed/total, and 0 over an empty window
C34_PercentileAndErrorRate ==
    LET n == Len(recentMetrics)
        rate == calculateErrorRate(recentMetrics)
    IN  /\ \A p \in Percentiles :
              LET index == Max(0, CeilOfShare(p, n) - 1)
                  v == calculatePercentileLatency(recentMetrics, p)
              IN  IF n = 0 THEN v = 0
                  ELSE index \in 0..(n - 1) /\ AtSortedIndex(recentMetrics, index, v)
        /\ rate.den > 0
        /\ IF n = 0 THEN rate.num = 0
           ELSE rate.num * n
                  = (n - Cardinality({k \in 1..n : recentMetrics[k].success}))
                      * rate.den

\* a strategy decided over a full window that is not sorted by latency, holds
\* a failure, and whose median differs from its least and greatest latency
C34_Witness ==
    /\ Decided
    /\ Len(recentMetrics) = MaxWindow
    /\ recentMetrics[1].latency > recentMetrics[2].latency
    /\ \E k \in DOMAIN recentMetrics : ~recentMetrics[k].success
    /\ calculatePercentileLatency(recentMetrics, 50)
          # calculatePercentileLatency(recentMetrics, 0)
    /\ calculatePercentileLatency(recentMetrics, 50)
          # calculatePercentileLatency(recentMetrics, 100)

\* C35: a MEASUREMENT record counts in successfulPaths the candidates that
\* returned a successful result and in totalPaths the candidates raced; a
\* record with a winner has successfulPaths >= 1 and a successful winner
C35_MeasurementCounts ==
    \A k \in MeasurementRecords :
        LET record == resultTable[k]
        IN  /\ record.successfulPaths = Cardinality(SuccessfulPaths)
            /\ record.totalPaths = parallelFunctions
            /\ record.winningPath # NoWinner.pathId =>
                  /\ record.successfulPaths >= 1
                  /\ record.winningPath \in SuccessfulPaths

(***************************************************************************)
(* Properties of a settled request                                         *)
(***************************************************************************)
\* the outcome the delayed hedge has given the request
DelayedOutcome == <<promise, result, thrown>>

\* C27: once the promise of a delayed hedge is settled, the completion of the
\* primary or of a backup, with a payload or a failure, leaves the outcome as
\* it is: the result, the winner and hedgesTriggered are those the first
\* participant to succeed resolved with, and a request that is resolved is
\* never rejected, nor one that is rejected resolved
C27_OutcomeIsFinal ==
    [][/\ (strategy.type = "DELAYED_HEDGE" /\ promise # "pending"
             /\ requests' = requests)
          => DelayedOutcome' = DelayedOutcome
       /\ (strategy'.type = "DELAYED_HEDGE" /\ promise' = "fulfilled")
          => /\ firstOk' # -1
             /\ result'.from = firstOk'
             /\ result'.winner = SourceName(firstOk')
             /\ result'.hedgesTriggered =
                   IF firstOk' = 0 THEN hedgePromises' ELSE hedgePromises' + 1]_vars

\* a delayed hedge that backup-0 resolved, the primary returning its payload
\* afterwards
C27_Witness ==
    /\ strategy.type = "DELAYED_HEDGE"
    /\ promise = "fulfilled"
    /\ result.from = 1
    /\ firstOk = 1
    /\ inv[0] \in Payloads

\* an invocation in the state st has the timer state timer: armed while it
\* is outstanding, cleared once it has settled
UnderTimeout(st, timer) ==
    /\ st = "pending" => timer = "armed"
    /\ st \notin {"none", "pending"} => timer = "cleared"

\* C28: every invocation the orchestrator makes (primary, backups, speculative
\* follow-ups) and every invocation the router makes runs with an abort timer
\* armed, and the timer is cleared once the invocation has settled, with a
\* payload or a failure
C28_InvocationsUnderTimeout ==
    /\ \A i \in Participants : UnderTimeout(inv[i], timeoutId.inv[i])
    /\ \A k \in DOMAIN specInv : UnderTimeout(specInv[k], timeoutId.spec[k])
    /\ \A r \in RouterRequests :
          /\ router[r].pc = "invoking" => router[r].timeoutId = "armed"
          /\ router[r].latency # -1 => router[r].timeoutId = "cleared"

\* C29: whatever hedgeThresholdMs is configured, the timeout of the
\* orchestrator function is at least the delay of the hedge timer plus the
\* timeout of a backup, and at least the timeout of the primary, so the
\* orchestrator is never stopped before the backups of a delayed hedge and
\* its primary have had their full time
C29_OrchestratorTimeoutSuffices ==
    /\ OrchestratorTimeoutMs >=
          HedgeDelayMs(hedgeThreshold) + BackupTimeoutMs(hedgeThreshold)
    /\ OrchestratorTimeoutMs >= PrimaryTimeoutMs(hedgeThreshold)
    /\ orchestrator = "timedOut" =>
          attempt.primary = "aborted" /\ attempt.backup = "aborted"

NextPositions(pos) ==
    CASE pos = "idle" -> {"deciding"}
      [] pos = "deciding" -> {"executing"}
      [] pos = "executing" -> {"recording", "thrown"}
      [] pos = "recording" -> {"returned"}
      [] OTHER -> {"deciding"}                     \* the next request

\* the request is executing and nothing it waits for is outstanding: every
\* invocation made has settled and the hedge timer is not armed
Stranded ==
    /\ hpc = "executing"
    /\ \A i \in Participants : inv[i] # "pending"
    /\ hedgeTimer # "armed"

\* C31: a request goes from deciding to executing and from there to resolved
\* (its metrics recorded and its result returned) or failed (thrown), and is
\* never left executing once every invocation it made has settled and its
\* timer has fired or been cleared, under any strategy
C31_RequestTerminates ==
    [][/\ hpc' # hpc => hpc' \in NextPositions(hpc)
       /\ ~Stranded']_vars

\* the backups a hedge is to invoke: the first min(maxHedgedRequests, number
\* of configured backups) of the configured list
BackupsToInvoke ==
    {i \in 1..MaxBackupFunctions : i <= maxHedgedRequests /\ i <= backupFunctionNames}

\* C32: an immediate hedge invokes, together with the primary, the first
\* min(maxHedgedRequests, configured backups) backups; a delayed hedge invokes
\* the primary only until its timer fires, and exactly those backups, once
\* each, when it fires
C32_BackupsInvoked ==
    /\ Immediate => Launched(0) /\ LaunchedBackups = BackupsToInvoke
    /\ Delayed =>
          /\ Launched(0)
          /\ LaunchedBackups = IF hedgeTimer = "fired" THEN BackupsToInvoke ELSE {}
    /\ (Immediate \/ Delayed) =>
          \A i \in Participants : sent[i] = IF Launched(i) THEN 1 ELSE 0

\* a delayed hedge with three backups configured whose timer has fired: two
\* are invoked
C32_Witness ==
    /\ Delayed /\ hedgeTimer = "fired"
    /\ backupFunctionNames = 3
    /\ LaunchedBackups = {1, 2}

(***************************************************************************)
(* Properties of path selection                                            *)
(***************************************************************************)
\* the sum of totalCount over the recorded statistics
TotalSamples ==
    Cardinality({<<i, k>> \in GatePaths \X (1..MaxRouterRequests * MaxGatePaths + 1) :
                    k <= pathStats[i].totalCount})

Selects(r) == router[r].pc = "idle" /\ router'[r].pc # "idle"

\* C19: a selection uses Thompson sampling exactly when adaptive routing is
\* enabled and the sum of totalCount over all path statistics is at least
\* minSampleSize, and weighted random selection otherwise
C19_AlgorithmChoice ==
    [][\A r \in RouterRequests :
          Selects(r) =>
             router'[r].algorithm =
                IF enableAdaptiveRouting /\ TotalSamples >= minSampleSize
                THEN "thompsonSampling" ELSE "weightedRandomSelection"]_vars

\* a selection by Thompson sampling where only the counts of two paths
\* together reach minSampleSize, exactly
C19_Witness ==
    /\ \E r \in RouterRequests : router[r].algorithm = "thompsonSampling"
    /\ \A i \in GatePaths : pathStats[i].totalCount < minSampleSize
    /\ TotalSamples = minSampleSize

PositiveWeights ==
    /\ Len(executionPaths) > 0
    /\ \A i \in GatePaths : executionPaths[i] > 0

\* the weights of the paths up to path i, summed
CumulativeWeight(i) ==
    Cardinality({<<j, k>> \in (1..i) \X (1..MaxWeight) : k <= executionPaths[j]})

\* the cumulative weight of path i reaches the draw d
Reaches(i, d) ==
    IF d.frac THEN CumulativeWeight(i) > d.whole ELSE CumulativeWeight(i) >= d.whole

FirstReaching(d) ==
    CHOOSE i \in GatePaths : Reaches(i, d) /\ \A j \in 1..(i - 1) : ~Reaches(j, d)

\* the measure of the draws in [0, totalWeight) that select path i: the
\* number of unit intervals (whole, whole + 1) that do
Share(i) ==
    Cardinality({d \in RandomDraws :
                    d.frac /\ weightedRandomSelection(executionPaths, d) = i})

\* C20: over a non-empty list of paths with positive weights, weighted random
\* selection maps every draw in [0, totalWeight) to the first path, in
\* iteration order, whose cumulative weight reaches the draw, so the share of
\* the draws that select a path equals its weight out of totalWeight; and the
\* path a request selected by it is one of the paths
C20_WeightedSelection ==
    PositiveWeights =>
        /\ \A d \in RandomDraws :
              weightedRandomSelection(executionPaths, d) = FirstReaching(d)
        /\ \A i \in GatePaths : Share(i) = executionPaths[i]
        /\ \A r \in RouterRequests :
              router[r].algorithm = "weightedRandomSelection"
                 => router[r].selected \in GatePaths

\* weighted random selection chose the second, heavier path
C20_Witness ==
    /\ PositiveWeights /\ Len(executionPaths) = 2
    /\ executionPaths[1] < executionPaths[2]
    /\ \E r \in RouterRequests :
          /\ router[r].algorithm = "weightedRandomSelection"
          /\ router[r].selected = 2

\* the score thompsonSampling computes for path i from the samples s
ScoreOf(i, s) ==
    LET stats == StatsOrDefault(pathStats[i])
    IN  Score(betaSample(BetaParameters(stats).alpha,
                         BetaParameters(stats).beta, s[i]),
              stats.avgLatency)

\* no score compares greater than -Infinity: every one is NaN
NoScoreGreater(s) == \A i \in GatePaths : ~Greater(ScoreOf(i, s), MinusInfinity)

\* a draw that rounding has pushed beyond every cumulative weight
Drifted == [whole |-> TotalWeight(executionPaths), frac |-> TRUE]

\* C21: over a non-empty list of paths, whatever the statistics and the draws,
\* weighted random selection and Thompson sampling return one of the paths,
\* never undefined; when no cumulative weight reaches the draw or no score
\* compares greater, the first path is returned; a request that has selected
\* has selected one of the paths
C21_AlwaysACandidate ==
    Len(executionPaths) > 0 =>
        /\ \A d \in RandomDraws :
              weightedRandomSelection(executionPaths, d) \in GatePaths
        /\ weightedRandomSelection(executionPaths, Drifted) = 1
        /\ \A s \in SampleDraws :
              /\ thompsonSampling(executionPaths, pathStats, s) \in GatePaths
              /\ NoScoreGreater(s)
                    => thompsonSampling(executionPaths, pathStats, s) = 1
        /\ \A r \in RouterRequests :
              router[r].pc # "idle" =>
                 router[r].pc = "invoking" /\ router[r].selected \in GatePaths

\* Thompson sampling selected the first of two paths, which is what it does
\* with samples that give no score greater than -Infinity
C21_Witness ==
    /\ Len(executionPaths) = 2
    /\ \E r \in RouterRequests :
          /\ router[r].algorithm = "thompsonSampling"
          /\ router[r].selected = 1
    /\ \E s \in SampleDraws :
          /\ NoScoreGreater(s)
          /\ ThompsonLoop(executionPaths, pathStats, s, 1, 0, MinusInfinity) = 0

\* C22: a configuration with an empty list of paths, or with a weight that is
\* not positive, is rejected when the gate is configured, so no request ever
\* selects over an empty list or with such a weight
C22_ConfigurationFailsClosed ==
    \A r \in RouterRequests : router[r].pc # "idle" => PositiveWeights

\* the counts observed for path i: both 0 for a path without observations
ObservedCounts(i) ==
    IF pathStats[i].present
    THEN [successCount |-> pathStats[i].successCount,
          totalCount |-> pathStats[i].totalCount]
    ELSE [successCount |-> 0, totalCount |-> 0]

\* C23: when a request selects by Thompson sampling, the Beta parameters of
\* every path are alpha = successCount + 1 and beta = totalCount -
\* successCount + 1 of the counts observed for it, so alpha = beta = 1 for a
\* path without observations, whose average latency is taken to be 1000 ms
C23_BetaParameters ==
    \A r \in RouterRequests :
       router[r].algorithm = "thompsonSampling" =>
          \A i \in GatePaths :
             LET stats == StatsOrDefault(pathStats[i])
                 counts == ObservedCounts(i)
             IN  /\ BetaParameters(stats).alpha = counts.successCount + 1
                 /\ BetaParameters(stats).beta =
                       counts.totalCount - counts.successCount + 1
                 /\ ~pathStats[i].present =>
                       /\ BetaParameters(stats) = [alpha |-> 1, beta |-> 1]
                       /\ stats.avgLatency = [num |-> 1000, den |-> 1]

\* two scores are the same number
SameScore(a, b) ==
    a.kind # "nan" /\ b.kind # "nan" /\ ~Greater(a, b) /\ ~Greater(b, a)

\* C24: whatever the samples, the path Thompson sampling returns has a score
\* (its Beta sample divided by avgLatency / 1000) that no path's score
\* exceeds, and no path before it in executionPaths has the same score
C24_HighestScoreFirstOnTies ==
    Len(executionPaths) > 0 =>
        /\ \A s \in SampleDraws :
              LET best == thompsonSampling(executionPaths, pathStats, s)
              IN  /\ \A j \in GatePaths :
                        ~Greater(ScoreOf(j, s), ScoreOf(best, s))
                  /\ \A j \in 1..(best - 1) :
                        ~SameScore(ScoreOf(j, s), ScoreOf(best, s))
        /\ \A r \in RouterRequests :
              router[r].algorithm = "thompsonSampling"
                 => \E t \in SampleDraws :
                       router[r].selected =
                          thompsonSampling(executionPaths, pathStats, t)

\* Thompson sampling selected the second path, and with other samples the two
\* paths have the same score and it returns the first
C24_Witness ==
    /\ Len(executionPaths) = 2
    /\ \E r \in RouterRequests :
          router[r].algorithm = "thompsonSampling" /\ router[r].selected = 2
    /\ \E s \in SampleDraws :
          /\ SameScore(ScoreOf(1, s), ScoreOf(2, s))
          /\ thompsonSampling(executionPaths, pathStats, s) = 1

(***************************************************************************)
(* Properties of the path statistics                                       *)
(***************************************************************************)
\* C25: every entry of pathStats has totalCount >= successCount >= 0 and
\* totalLatency >= 0, and, its totalCount being positive, an avgLatency equal
\* to totalLatency / totalCount
C25_StatsInvariant ==
    \A i \in GatePaths :
       pathStats[i].present =>
          /\ pathStats[i].totalCount >= pathStats[i].successCount
          /\ pathStats[i].successCount >= 0
          /\ pathStats[i].totalLatency >= 0
          /\ pathStats[i].totalCount > 0 =>
                pathStats[i].avgLatency.num * pathStats[i].totalCount
                   = pathStats[i].totalLatency * pathStats[i].avgLatency.den

\* a path with two observations of different latencies
C25_Witness ==
    \E i \in GatePaths :
       /\ pathStats[i].present
       /\ pathStats[i].totalCount = 2
       /\ pathStats[i].totalLatency = 1000
       /\ \A r \in RouterRequests : router[r].pc = "returned"

\* the requests routed to path i whose invocation has returned
Completed(i) ==
    {r \in RouterRequests : router[r].selected = i /\ router[r].latency # -1}

RECURSIVE SumOfLatencies(_)
SumOfLatencies(rs) ==
    IF rs = {} THEN 0
    ELSE LET r == CHOOSE q \in rs : TRUE
         IN  router[r].latency + SumOfLatencies(rs \ {r})

\* C26: however the requests the process handles interleave, no update is
\* lost: the totalCount of a path is the number of requests routed to it
\* whose invocation has returned, and its totalLatency the sum of their
\* latencies
C26_NoLostUpdates ==
    \A i \in GatePaths :
       /\ pathStats[i].totalCount = Cardinality(Completed(i))
       /\ pathStats[i].totalLatency = SumOfLatencies(Completed(i))

\* two requests routed to the same path, with different latencies, have both
\* returned
C26_Witness ==
    \E i \in GatePaths :
       /\ Cardinality(Completed(i)) = 2
       /\ pathStats[i].totalLatency = 1000
       /\ \A r \in Completed(i) : router[r].pc = "returned"

(***************************************************************************)
(* Properties of the router's requests                                     *)
(***************************************************************************)
\* the path the selection of the algorithm in force returns from the
\* statistics stats and the draws draw
SelectedFrom(stats, draw) ==
    IF selectExecutionPath(enableAdaptiveRouting, stats, minSampleSize)
         = "thompsonSampling"
    THEN thompsonSampling(executionPaths, stats, draw.samples)
    ELSE weightedRandomSelection(executionPaths, draw.random)

\* C33: a selection leaves pathStats, the configured paths and the other
\* requests' choices unchanged; the path it chooses is the one the algorithm
\* returns from the statistics at that moment and the request's own draws,
\* whatever the other requests are doing, and it stays the request's choice
C33_NoSharedChoice ==
    [][\A r \in RouterRequests :
          /\ Selects(r) =>
                /\ pathStats' = pathStats
                /\ executionPaths' = executionPaths
                /\ \A q \in RouterRequests \ {r} : router'[q] = router[q]
                /\ \E draw \in Draws(selectExecutionPath(enableAdaptiveRouting,
                                                         pathStats, minSampleSize)) :
                      router'[r].selected = SelectedFrom(pathStats, draw)
          /\ router[r].pc # "idle" => router'[r].selected = router[r].selected]_vars

\* two requests in flight together that chose different paths
C33_Witness ==
    /\ router[1].pc = "invoking"
    /\ router[2].pc = "invoking"
    /\ router[1].selected # router[2].selected

\* the invocation of request r has failed: the request ended without a latency
InvocationFailed(r) ==
    /\ router[r].pc = "returned"
    /\ router[r].selected # 0
    /\ router[r].latency = -1

\* C36: a request whose invocation fails leaves pathStats as it is; pathStats
\* changes only by an update with success = true; and every entry of pathStats
\* has successCount = totalCount
C36_OnlySuccessesCounted ==
    [][/\ \A r \in RouterRequests :
             (router[r].pc = "invoking" /\ InvocationFailed(r)') =>
                 pathStats' = pathStats
       /\ pathStats' # pathStats =>
             \E i \in GatePaths, latency \in RouterLatencies :
                 pathStats' = updatePathStats(pathStats, i, latency, TRUE)
       /\ \A i \in GatePaths :
             /\ pathStats[i].successCount = pathStats[i].totalCount
             /\ pathStats'[i].successCount = pathStats'[i].totalCount]_vars

\* one request's invocation has failed and another's, to the same path, has
\* returned: the path has one observation
C36_Witness ==
    \E r, q \in RouterRequests :
        /\ InvocationFailed(r)
        /\ router[q].pc = "returned" /\ router[q].latency # -1
        /\ router[q].selected = router[r].selected
        /\ pathStats[router[r].selected].totalCount = 1

\* the response of the catch block
IsErrorResponse(req) ==
    req.statusCode = 500 /\ req.body = "error" /\ req.quantumPath = 0

\* the selection, the invocation or the parsing of the response failed
HandlingFailed(r) ==
    \/ router[r].algorithm # "none" /\ router[r].selected = 0
    \/ InvocationFailed(r)
    \/ router[r].payload = "unparsable"

\* C37: the handler never throws: a request whose selection, invocation or
\* response parsing failed has returned the error response (statusCode 500, a
\* JSON error body), and any other request that has ended has returned the
\* payload's response with the selected path in X-Quantum-Path
C37_HandlerNeverThrows ==
    \A r \in RouterRequests :
        /\ router[r].pc \in {"idle", "invoking", "returned"}
        /\ HandlingFailed(r) =>
              router[r].pc = "returned" /\ IsErrorResponse(router[r])
        /\ (router[r].pc = "returned" /\ ~HandlingFailed(r)) =>
              /\ router[r].payload = "json"
              /\ router[r].body = "payload"
              /\ router[r].statusCode \in {200, 500}
              /\ router[r].quantumPath = router[r].selected

\* one request ended with a payload that does not parse, another with a
\* payload of statusCode 500
C37_Witness ==
    \E r, q \in RouterRequests :
        /\ router[r].pc = "returned" /\ router[r].payload = "unparsable"
        /\ router[q].pc = "returned" /\ router[q].payload = "json"
        /\ router[q].statusCode = 500
        /\ router[q].quantumPath # 0

\* adaptive routing is enabled and the samples have reached minSampleSize
AdaptiveReached == enableAdaptiveRouting /\ TotalSamples >= minSampleSize

\* C38: the totalCount of a path never decreases and no entry of pathStats is
\* deleted, so once the samples have reached minSampleSize with adaptive
\* routing enabled they stay there, and every request selected from then on
\* is routed by thompsonSampling
C38_AdaptiveIsMonotone ==
    [][/\ \A i \in GatePaths :
             /\ pathStats'[i].totalCount >= pathStats[i].totalCount
             /\ pathStats[i].present => pathStats'[i].present
       /\ AdaptiveReached =>
             /\ AdaptiveReached'
             /\ \A r \in RouterRequests :
                   Selects(r) => router'[r].algorithm = "thompsonSampling"]_vars

\* the first request was routed by weighted random selection and the second,
\* after the samples reached minSampleSize, by thompsonSampling
C38_Witness ==
    /\ AdaptiveReached
    /\ router[1].algorithm = "weightedRandomSelection"
    /\ router[2].algorithm = "thompsonSampling"
====
